---- MODULE Spec2Model ----
(***************************************************************************)
(* A model of the compiler front end of econaxis/db1 (python/): lexer,     *)
(* parser, desugarer, function extraction, type inference with             *)
(* unification, lowering and call resolution.                              *)
(*                                                                         *)
(* Python values are modelled as follows.                                  *)
(*   str       a sequence of one-character strings ("ab" is <<"a","b">>),  *)
(*             so that the code's per-character tests can be computed      *)
(*   list      a sequence                                                  *)
(*   dict      a sequence of [k, v] entries in insertion order, keys       *)
(*             compared with = (Type.__hash__ is constant, so a dict of    *)
(*             Types is keyed by __eq__ alone)                             *)
(*   an exception ends the computation: operators return a record whose    *)
(*             ok field is FALSE                                           *)
(***************************************************************************)
EXTENDS Integers, Sequences, FiniteSets, TLC

VARIABLES
    pc,        \* position of the driver / of the operation under check
    src,       \* the source text handed to lexer
    words,     \* lexer(src)
    rewords,   \* lexer(" ".join(words))
    tree,      \* the driver's tree a: the Module node, flattened, then stripped
    functions, \* the FunctionStubs separate_defuns returned
    name_counter, \* parser.py's global name_counter
    err,       \* the exception that ended the run, "" while there is none
    subst,     \* the solutions dict[Type, Type] that unify_vars works on
    calls,     \* the unify_vars calls made so far: [one, two, ok, err]
    todo,      \* the constraints list given to unify_constraints
    type_var_counter, \* type_inference.py's global type_var_counter
    application, \* the driver's application: the invocation type of main
    resulting_type, \* what main_fn.apply_with_type(application) returned
    type_solutions, \* the driver's type_solutions
    fn_defs    \* the driver's fn_defs: lowered, then resolved

lexvars == <<src, words, rewords>>
frontvars == <<tree, functions, name_counter>>
typevars == <<subst, calls, todo>>
pipevars == <<type_var_counter, application, resulting_type, type_solutions, fn_defs>>
vars == <<pc, err, lexvars, frontvars, typevars, pipevars>>

(***************************************************************************)
(* Bounds of the model                                                     *)
(***************************************************************************)
MaxSrcLen == 3

\* the characters source texts are drawn from in the lexer specification
LexAlphabet == {"a", "1", " ", "(", ")"}

(***************************************************************************)
(* Sequence helpers                                                        *)
(***************************************************************************)
SeqsUpTo(S, n) == UNION {[1..m -> S] : m \in 0..n}

\* the elements of s not equal to x, in order
FilterSeq(s, x) == SelectSeq(s, LAMBDA e : e # x)

(***************************************************************************)
(* parser.py: lexer                                                        *)
(***************************************************************************)
\* one iteration of the for loop of lexer: st is [words, current_word]
LexerStep(st, c) ==
    IF c = " "
    THEN [words |-> Append(st.words, st.current_word), current_word |-> <<>>]
    ELSE IF c \in {"(", ")"}
    THEN [words |-> Append(Append(st.words, st.current_word), <<c>>),
          current_word |-> <<>>]
    ELSE [words |-> st.words, current_word |-> Append(st.current_word, c)]

RECURSIVE LexerRange(_, _, _, _)
\* the iterations of the for loop for the characters lo..hi of str, in
\* order.  The range is halved so that the evaluation is not as deep as the
\* text is long; the test on r, which always holds, only makes the first
\* half be evaluated before the second is entered.
LexerRange(st, str, lo, hi) ==
    IF lo > hi THEN st
    ELSE IF lo = hi THEN LexerStep(st, str[lo])
    ELSE LET mid == (lo + hi) \div 2
             r == LexerRange(st, str, lo, mid)
         IN  IF Len(r.words) >= 0 THEN LexerRange(r, str, mid + 1, hi) ELSE r

\* for c in str: ...
LexerLoop(st, str) == LexerRange(st, str, 1, Len(str))

\* lexer(str): the words list after the loop, empty words filtered out; the
\* word still in current_word when the text ends is not appended
lexer(str) ==
    LET st == LexerLoop([words |-> <<>>, current_word |-> <<>>], str)
    IN  FilterSeq(st.words, <<>>)

RECURSIVE JoinSpace(_)
\* " ".join(ws)
JoinSpace(ws) ==
    IF ws = <<>> THEN <<>>
    ELSE IF Len(ws) = 1 THEN ws[1]
    ELSE ws[1] \o <<" ">> \o JoinSpace(Tail(ws))

(***************************************************************************)
(* Specification of the lexer alone: any text over LexAlphabet of at most  *)
(* MaxSrcLen characters is lexed, and the joined words are lexed again.    *)
(***************************************************************************)
InitLex ==
    /\ pc = "text"
    /\ src \in SeqsUpTo(LexAlphabet, MaxSrcLen)
    /\ words = <<>>
    /\ rewords = <<>>
    /\ tree = [instr |-> "None", operands |-> <<>>, oplist |-> TRUE, s |-> <<>>]
    /\ functions = <<>>
    /\ name_counter = 1
    /\ err = ""
    /\ subst = <<>>
    /\ calls = <<>>
    /\ todo = <<>>
    /\ type_var_counter = 0
    /\ application = [k |-> "none", s |-> <<>>, l |-> <<>>]
    /\ resulting_type = [k |-> "none", s |-> <<>>, l |-> <<>>]
    /\ type_solutions = <<>>
    /\ fn_defs = <<>>

Lex ==
    /\ pc = "text"
    /\ words' = lexer(src)
    /\ pc' = "lexed"
    /\ UNCHANGED <<src, rewords, frontvars, err, typevars, pipevars>>

Relex ==
    /\ pc = "lexed"
    /\ rewords' = lexer(JoinSpace(words))
    /\ pc' = "relexed"
    /\ UNCHANGED <<src, words, frontvars, err, typevars, pipevars>>

NextLex == Lex \/ Relex

SpecLex == InitLex /\ [][NextLex]_vars

\* the maximal runs of characters other than space and parentheses, in order
RECURSIVE RunsFrom(_, _)
RunsFrom(str, cur) ==
    IF str = <<>> THEN (IF cur = <<>> THEN <<>> ELSE <<cur>>)
    ELSE IF Head(str) \in {" ", "(", ")"}
         THEN (IF cur = <<>> THEN <<>> ELSE <<cur>>) \o RunsFrom(Tail(str), <<>>)
         ELSE RunsFrom(Tail(str), Append(cur, Head(str)))

Range(s) == {s[i] : i \in DOMAIN s}

\* C6: lexing the words of a text joined by single spaces gives the same
\* words again, and every maximal run of characters other than space and
\* parentheses of the text, the one ending the text included, is a word.
C6_LexRoundTrip ==
    /\ pc = "relexed" => rewords = words
    /\ pc \in {"lexed", "relexed"} => Range(RunsFrom(src, <<>>)) \subseteq Range(words)


(***************************************************************************)
(* instruction.py, astnode.py: AstNode                                     *)
(*                                                                         *)
(* An AstNode is [instr, operands, oplist, s].  operands is the child      *)
(* list.  oplist is FALSE when the Python attribute operands is not a list *)
(* but a bare AstNode (parser.py:39 builds AstNode(Negate, k)); operands   *)
(* then holds that one node.  A child that is a Python str is the          *)
(* pseudo-node PyStr(x), instr "str", with the text in s.                  *)
(***************************************************************************)
Node(instr, ops) == [instr |-> instr, operands |-> ops, oplist |-> TRUE, s |-> <<>>]

PyStr(x) == [instr |-> "str", operands |-> <<>>, oplist |-> TRUE, s |-> x]

BareNode(instr, k) == [instr |-> instr, operands |-> <<k>>, oplist |-> FALSE, s |-> <<>>]

NoNode == Node("None", <<>>)

IsAstNode(n) == n.instr \notin {"str", "None"}

Digits == {"0", "1", "2", "3", "4", "5", "6", "7", "8", "9"}

\* is_number(a): every character is a digit or a dot
is_number(a) == \A i \in DOMAIN a : a[i] \in Digits \cup {"."}

\* the fold grouping to the right, a op (b op c): what a right fold would build
RECURSIVE ReduceRight(_, _)
ReduceRight(instr, s) ==
    IF Len(s) = 1 THEN s[1]
    ELSE Node(instr, <<s[1], ReduceRight(instr, Tail(s))>>)

RECURSIVE Reduce(_, _)
\* functools.reduce(lambda k1, k2: AstNode(instr, [k1, k2]), s) for s not empty
Reduce(instr, s) ==
    IF Len(s) = 1 THEN s[1]
    ELSE Node(instr, <<Reduce(instr, SubSeq(s, 1, Len(s) - 1)), s[Len(s)]>>)

\* token_result[1:] = list(map(lambda k: AstNode(Instruction.Negate, k), token_result[1:]))
NegateTail(s) ==
    [i \in DOMAIN s |-> IF i = 1 THEN s[i] ELSE BareNode("Negate", s[i])]

ParseFail == [ok |-> FALSE, node |-> NoNode, nodes |-> <<>>, rest |-> <<>>]

RECURSIVE parser(_), take_until(_, _, _)

\* take_until(next, until), with the results so far in acc
take_until(next, until, acc) ==
    IF Len(next) > 0 /\ next[1] # until
    THEN LET r == parser(next)
         IN  IF r.ok THEN take_until(r.rest, until, Append(acc, r.node))
             ELSE ParseFail
    ELSE [ok |-> TRUE, node |-> NoNode, nodes |-> acc, rest |-> next]

\* parser(tokens): one node and the tokens left; not ok when the code raises
\* (next[0] of an empty list, reduce of an empty list, no case matching [])
parser(tokens) ==
    IF tokens = <<>> THEN ParseFail
    ELSE LET x == Head(tokens)
             r == take_until(Tail(tokens), <<")">>, <<>>)
         IN
         IF x = <<"(">> THEN
            IF r.ok /\ r.rest # <<>>
            THEN [ok |-> TRUE, node |-> Node("Unknown", r.nodes), nodes |-> <<>>,
                  rest |-> Tail(r.rest)]
            ELSE ParseFail
         ELSE IF x \in {<<"+">>, <<"-">>, <<"*">>} THEN
            IF r.ok /\ r.rest # <<>> /\ r.nodes # <<>>
            THEN [ok |-> TRUE,
                  node |-> IF x = <<"+">> THEN Reduce("Add", r.nodes)
                           ELSE IF x = <<"*">> THEN Reduce("Mult", r.nodes)
                           ELSE Reduce("Add", NegateTail(r.nodes)),
                  nodes |-> <<>>, rest |-> r.rest]
            ELSE ParseFail
         ELSE IF is_number(x) THEN
            [ok |-> TRUE, node |-> Node("NumberConstant", <<PyStr(x)>>),
             nodes |-> <<>>, rest |-> Tail(tokens)]
         ELSE
            [ok |-> TRUE, node |-> Node("String1", <<PyStr(x)>>),
             nodes |-> <<>>, rest |-> Tail(tokens)]

RECURSIVE parse_all(_)
\* parse_all(a): [ok, nodes]
parse_all(a) ==
    IF a = <<>> THEN [ok |-> TRUE, nodes |-> <<>>]
    ELSE LET r == parser(a)
         IN  IF ~r.ok THEN [ok |-> FALSE, nodes |-> <<>>]
             ELSE LET t == parse_all(r.rest)
                  IN  IF t.ok THEN [ok |-> TRUE, nodes |-> <<r.node>> \o t.nodes]
                      ELSE [ok |-> FALSE, nodes |-> <<>>]

(***************************************************************************)
(* parser.py: flatten_tree, gen_random_name                                *)
(***************************************************************************)
DigitSeq == <<"0", "1", "2", "3", "4", "5", "6", "7", "8", "9">>

RECURSIVE IntStr(_)
\* str(n) for n >= 0
IntStr(n) ==
    IF n < 10 THEN <<DigitSeq[n + 1]>>
    ELSE IntStr(n \div 10) \o <<DigitSeq[(n % 10) + 1]>>

S_lambda == <<"l", "a", "m", "b", "d", "a">>
S_defun == <<"d", "e", "f", "u", "n">>
S_LambdaDash == <<"L", "a", "m", "b", "d", "a", "-">>

\* gen_random_name() with name_counter = nc before the call: the counter is
\* incremented first, then used
gen_random_name(nc) == Node("String1", <<PyStr(S_LambdaDash \o IntStr(nc + 1))>>)

IsString1Of(n, x) == n.instr = "String1" /\ n.oplist /\ n.operands = <<PyStr(x)>>

\* the case [AstNode(String1, ["lambda"]), AstNode(Unknown, [*lambda_params]), fn_body]
IsLambdaShape(ops) ==
    /\ Len(ops) = 3
    /\ IsString1Of(ops[1], S_lambda)
    /\ ops[2].instr = "Unknown" /\ ops[2].oplist

\* the case [AstNode(String1, ["defun"]), AstNode(String1, [_]) as fn_name,
\*           AstNode(Unknown, [*lambda_params]), fn_body]
IsDefunShape(ops) ==
    /\ Len(ops) = 4
    /\ IsString1Of(ops[1], S_defun)
    /\ ops[2].instr = "String1" /\ ops[2].oplist /\ Len(ops[2].operands) = 1
    /\ ops[3].instr = "Unknown" /\ ops[3].oplist

FlatFail == [ok |-> FALSE, node |-> NoNode, nodes |-> <<>>, nc |-> 0]

RECURSIVE flatten_tree(_, _), FlattenList(_, _, _)

\* list(map(lambda k: flatten_tree(k), ops)), left to right, with the nodes
\* done so far in acc
FlattenList(ops, nc, acc) ==
    IF ops = <<>> THEN [ok |-> TRUE, node |-> NoNode, nodes |-> acc, nc |-> nc]
    ELSE LET r == flatten_tree(Head(ops), nc)
         IN  IF r.ok THEN FlattenList(Tail(ops), r.nc, Append(acc, r.node))
             ELSE FlatFail

\* flatten_tree(node) with name_counter = nc: [ok, node, nc]
flatten_tree(node, nc) ==
    IF ~IsAstNode(node) THEN FlatFail
    ELSE IF node.instr \in {"NumberConstant", "String1"}
    THEN [ok |-> TRUE, node |-> node, nodes |-> <<>>, nc |-> nc]
    ELSE IF node.instr = "Unknown" /\ node.oplist /\ Len(node.operands) = 1
            /\ IsAstNode(node.operands[1])
    THEN flatten_tree(node.operands[1], nc)
    ELSE LET ops == node.operands
             isl == node.instr = "Unknown" /\ IsLambdaShape(ops)
             isd == node.instr = "Unknown" /\ ~isl /\ IsDefunShape(ops)
             \* the node after the inner match statement
             n1 == IF isl
                   THEN Node("Defun", <<gen_random_name(nc),
                                        Node("LambdaParams", ops[2].operands), ops[3]>>)
                   ELSE IF isd
                   THEN Node("Defun", <<ops[2],
                                        Node("LambdaParams", ops[3].operands), ops[4]>>)
                   ELSE node
             nc1 == IF isl THEN nc + 1 ELSE nc
             \* assert all((param.instr == Instruction.String1 for param in lambda_params))
             asserted == isl => \A i \in DOMAIN ops[2].operands :
                                    ops[2].operands[i].instr = "String1"
         IN  IF ~asserted \/ ~n1.oplist THEN FlatFail
             ELSE LET r == FlattenList(n1.operands, nc1, <<>>)
                  IN  IF r.ok
                      THEN [ok |-> TRUE, node |-> [n1 EXCEPT !.operands = r.nodes],
                            nodes |-> <<>>, nc |-> r.nc]
                      ELSE FlatFail

(***************************************************************************)
(* function_stub.py: FunctionStub; compiler.py: separate_defuns            *)
(***************************************************************************)
\* Type is defined below; my_type is None until annotate_type
NoType == [k |-> "none", s |-> <<>>, l |-> <<>>]

\* FunctionStub(node, name=name, params_list=params, body=fn_body); the node
\* field is never read again and is left out
FunctionStub(name, params, body) ==
    [name |-> name, params_list |-> params, body |-> body,
     intermediate_types |-> <<>>, my_type |-> NoType]

\* convert_string_to_str succeeds: every param is AstNode(String1, [str])
ParamsAreStrings(params) ==
    \A i \in DOMAIN params :
        /\ params[i].instr = "String1" /\ params[i].oplist
        /\ Len(params[i].operands) = 1 /\ params[i].operands[1].instr = "str"

convert_string_to_str(params) == [i \in DOMAIN params |-> params[i].operands[1].s]

\* the case AstNode(Defun, [AstNode(String1, [name]), AstNode(LambdaParams, [*params]), fn_body])
IsDefunNode(node) ==
    /\ node.instr = "Defun" /\ node.oplist /\ Len(node.operands) = 3
    /\ node.operands[1].instr = "String1" /\ node.operands[1].oplist
    /\ Len(node.operands[1].operands) = 1
    /\ node.operands[2].instr = "LambdaParams" /\ node.operands[2].oplist

\* one of the cases of separate_defuns that pass on to the walk of the operands
IsWalkedNode(node) ==
    \/ node.instr \in {"Mult", "Add"} /\ node.oplist /\ Len(node.operands) = 2
    \/ node.instr \in {"Negate", "String1", "NumberConstant"} /\ node.oplist
         /\ Len(node.operands) = 1
    \/ node.instr \in {"LambdaParams", "Unknown", "Module"}

SepFail == [ok |-> FALSE, functions |-> <<>>, node |-> NoNode, isnone |-> TRUE]

RECURSIVE separate_defuns(_), SeparateOperands(_, _, _)

\* the for loop of separate_defuns over node.operands; fns is its list functions
SeparateOperands(ops, fns, new_operands) ==
    IF ops = <<>>
    THEN [ok |-> TRUE, functions |-> fns, node |-> Node("None", new_operands),
          isnone |-> FALSE]
    ELSE LET j == Head(ops)
         IN  IF IsAstNode(j)
             THEN LET r == separate_defuns(j)
                  IN  IF ~r.ok THEN SepFail
                      ELSE SeparateOperands(Tail(ops), fns \o r.functions,
                               IF r.isnone THEN new_operands
                               ELSE Append(new_operands, r.node))
             ELSE SeparateOperands(Tail(ops), fns, Append(new_operands, j))

\* separate_defuns(node): [ok, functions, node, isnone]; isnone when the code
\* returns None for the node
separate_defuns(node) ==
    IF IsDefunNode(node)
    THEN IF ParamsAreStrings(node.operands[2].operands)
         THEN [ok |-> TRUE,
               functions |-> <<FunctionStub(node.operands[1].operands[1].s,
                                  convert_string_to_str(node.operands[2].operands),
                                  node.operands[3])>>,
               node |-> NoNode, isnone |-> TRUE]
         ELSE SepFail
    ELSE IF IsWalkedNode(node)
    THEN LET r == SeparateOperands(node.operands, <<>>, <<>>)
         IN  IF r.ok
             THEN [ok |-> TRUE, functions |-> r.functions,
                   node |-> [node EXCEPT !.operands = r.node.operands],
                   isnone |-> FALSE]
             ELSE SepFail
    ELSE SepFail

(***************************************************************************)
(* Source programs of the front-end specification: token sequences built   *)
(* by a small grammar, written out with single spaces.                     *)
(***************************************************************************)
MaxTopForms == 2

LP == <<"(">>
RP == <<")">>
Wrap(f) == <<LP>> \o f \o <<RP>>

Atoms == {<<"x">>, <<"1">>}
OpTokens == {<<"+">>, <<"-">>, <<"*">>}

\* the forms with parts in S: groups of one and two, operator forms of two
\* operands, a defun named nm and a lambda, each of one parameter x
Forms(S, nm) ==
    {Wrap(e) : e \in S}
    \cup {Wrap(e[1] \o e[2]) : e \in S \X S}
    \cup {Wrap(<<e[1]>> \o e[2] \o e[3]) : e \in OpTokens \X S \X S}
    \cup {Wrap(<<S_defun, nm, LP, <<"x">>, RP>> \o e) : e \in S}
    \cup {Wrap(<<S_lambda, LP, <<"x">>, RP>> \o e) : e \in S}

Expr0 == {<<t>> : t \in Atoms}
\* operator forms of three and four operands, as in (- 5 1 1)
OpLong ==
    {Wrap(<<e[1], e[2], e[3], e[4]>>) : e \in OpTokens \X Atoms \X Atoms \X Atoms}
    \cup {Wrap(<<<<"-">>, e[1], e[2], e[3], e[4]>>) : e \in Atoms \X Atoms \X Atoms \X Atoms}
Expr1 == Expr0 \cup Forms(Expr0, <<"f">>) \cup OpLong
Expr2 == Expr1 \cup Forms(Expr1, <<"g">>)

RECURSIVE Concat(_)
Concat(ss) == IF ss = <<>> THEN <<>> ELSE Head(ss) \o Concat(Tail(ss))

\* the token sequences of the programs: one form of Expr2, or up to
\* MaxTopForms forms with atoms as parts
FrontPrograms ==
    Expr2 \cup {Concat(p) : p \in SeqsUpTo(Forms(Expr0, <<"f">>), MaxTopForms)}

EmptyNode == [instr |-> "None", operands |-> <<>>, oplist |-> TRUE, s |-> <<>>]

InitFront ==
    /\ pc = "text"
    /\ \E p \in FrontPrograms : src = JoinSpace(p)
    /\ words = <<>>
    /\ rewords = <<>>
    /\ tree = EmptyNode
    /\ functions = <<>>
    /\ name_counter = 1
    /\ err = ""
    /\ subst = <<>>
    /\ calls = <<>>
    /\ todo = <<>>
    /\ type_var_counter = 0
    /\ application = [k |-> "none", s |-> <<>>, l |-> <<>>]
    /\ resulting_type = [k |-> "none", s |-> <<>>, l |-> <<>>]
    /\ type_solutions = <<>>
    /\ fn_defs = <<>>

\* a = AstNode(Instruction.Module, parse_all(a))
Parse ==
    /\ pc = "lexed"
    /\ LET r == parse_all(words)
       IN  IF r.ok
           THEN /\ tree' = Node("Module", r.nodes)
                /\ pc' = "parsed"
                /\ err' = err
           ELSE /\ tree' = tree
                /\ pc' = "failed"
                /\ err' = "ParseError"
    /\ UNCHANGED <<lexvars, functions, name_counter, typevars, pipevars>>

\* a = flatten_tree(a)
Flatten ==
    /\ pc = "parsed"
    /\ LET r == flatten_tree(tree, name_counter)
       IN  IF r.ok
           THEN /\ tree' = r.node
                /\ name_counter' = r.nc
                /\ pc' = "flat"
                /\ err' = err
           ELSE /\ tree' = tree
                /\ name_counter' = name_counter
                /\ pc' = "failed"
                /\ err' = "DesugarError"
    /\ UNCHANGED <<lexvars, functions, typevars, pipevars>>

\* functions, script = separate_defuns(a); script is a itself, changed in
\* place, or None
Separate ==
    /\ pc = "flat"
    /\ LET r == separate_defuns(tree)
       IN  IF r.ok
           THEN /\ tree' = IF r.isnone THEN tree ELSE r.node
                /\ functions' = r.functions
                /\ pc' = "stubs"
                /\ err' = err
           ELSE /\ tree' = tree
                /\ functions' = functions
                /\ pc' = "failed"
                /\ err' = "ExtractionError"
    /\ UNCHANGED <<lexvars, name_counter, typevars, pipevars>>

NextFront == Lex \/ Parse \/ Flatten \/ Separate

SpecFront == InitFront /\ [][NextFront]_vars

(***************************************************************************)
(* Claims about the parser and the extraction                              *)
(***************************************************************************)
\* the node parser builds for an operand that is one word
Leaf(tok) ==
    IF is_number(tok) THEN Node("NumberConstant", <<PyStr(tok)>>)
    ELSE Node("String1", <<PyStr(tok)>>)

\* ws is ( - a b1 ... bn ) with n >= 2 and every operand a single word
IsSubtractionForm(ws) ==
    /\ Len(ws) >= 6
    /\ ws[1] = LP /\ ws[2] = <<"-">> /\ ws[Len(ws)] = RP
    /\ \A i \in 3..(Len(ws) - 1) : ws[i] \notin {LP, RP} \cup OpTokens

IsNegateOf(node, tok) ==
    node.instr = "Negate" /\ Len(node.operands) = 1 /\ node.operands[1] = Leaf(tok)

RECURSIVE IsLeftFoldedSub(_, _)
\* node is add(...add(add(a, negate(b1)), negate(b2))..., negate(bn)) for ops = a b1 .. bn
IsLeftFoldedSub(node, ops) ==
    IF Len(ops) = 1 THEN node = Leaf(ops[1])
    ELSE /\ node.instr = "Add" /\ node.oplist /\ Len(node.operands) = 2
         /\ IsNegateOf(node.operands[2], ops[Len(ops)])
         /\ IsLeftFoldedSub(node.operands[1], SubSeq(ops, 1, Len(ops) - 1))

RECURSIVE Fringe(_)
\* the operands of a tree of add nodes, left to right
Fringe(node) ==
    IF node.instr = "Add" /\ node.oplist /\ Len(node.operands) = 2
    THEN Fringe(node.operands[1]) \o Fringe(node.operands[2])
    ELSE <<node>>

\* the node parsed from the one top-level form, inside its group
SoleForm == tree.operands[1].operands[1]

\* C7 as stated: the first operand is the left child of the outermost add and
\* the negations of all later operands are grouped under its right child.
C7_SubtractionRightGrouped ==
    (pc = "parsed" /\ IsSubtractionForm(words)) =>
        /\ Len(tree.operands) = 1 /\ Len(tree.operands[1].operands) = 1
        /\ SoleForm.instr = "Add" /\ Len(SoleForm.operands) = 2
        /\ SoleForm.operands[1] = Leaf(words[3])
        /\ LET fr == Fringe(SoleForm.operands[2])
           IN  /\ Len(fr) = Len(words) - 4
               /\ \A i \in DOMAIN fr : IsNegateOf(fr[i], words[i + 3])

\* C7 amended: ( - a b1 ... bn ) parses to the left fold
\* add(...add(a, negate(b1))..., negate(bn)): the negation of the last operand
\* is the right child of the outermost add, and the first operand is the
\* leftmost leaf.
C7_SubtractionLeftFolded ==
    (pc = "parsed" /\ IsSubtractionForm(words)) =>
        /\ Len(tree.operands) = 1 /\ Len(tree.operands[1].operands) = 1
        /\ IsLeftFoldedSub(SoleForm, SubSeq(words, 3, Len(words) - 1))

C7_Witness ==
    /\ pc = "parsed" /\ IsSubtractionForm(words)
    /\ words[3] # words[4]
    /\ IsLeftFoldedSub(SoleForm, SubSeq(words, 3, Len(words) - 1))

RECURSIVE DefunNames(_), DefunNamesOf(_)
\* the names of the function-declaration nodes under the nodes ns, in source order
DefunNamesOf(ns) ==
    IF ns = <<>> THEN <<>> ELSE DefunNames(Head(ns)) \o DefunNamesOf(Tail(ns))

\* the names of the function-declaration nodes of a tree, in source order
DefunNames(node) ==
    (IF node.instr = "Defun" THEN <<node.operands[1].operands[1].s>> ELSE <<>>)
    \o DefunNamesOf(node.operands)

StubNames(fns) == [i \in DOMAIN fns |-> fns[i].name]

\* C10: after separate_defuns there is one stub per function-declaration node
\* of the tree, in source order, nested declarations included, and no
\* declaration is left in the residual tree or in a stub's body.
C10_OneStubPerDeclaration ==
    [][(pc = "flat" /\ pc' = "stubs") =>
          /\ StubNames(functions') = DefunNames(tree)
          /\ DefunNames(tree') = <<>>
          /\ \A i \in DOMAIN functions' : DefunNames(functions'[i].body) = <<>>]_vars

(***************************************************************************)
(* type.py: Type                                                           *)
(*                                                                         *)
(* A Type is [k, s, l]: k = "a" when Type.type is a str (the text in s),   *)
(* k = "l" when it is a list (the element Types in l).  k = "none" is the  *)
(* Python None that type_annotator returns when no case matches.           *)
(***************************************************************************)
AtomT(x) == [k |-> "a", s |-> x, l |-> <<>>]

TupleT(ts) == [k |-> "l", s |-> <<>>, l |-> ts]

S_int == <<"i", "n", "t">>
S_float == <<"f", "l", "o", "a", "t">>
S_void == <<"v", "o", "i", "d">>

IntT == AtomT(S_int)
FloatT == AtomT(S_float)
VoidT == AtomT(S_void)

RECURSIVE is_base_type(_)
\* Type.is_base_type: elements that are not Types are skipped
is_base_type(t) ==
    IF t.k = "a" THEN t.s \in {S_float, S_int, S_void}
    ELSE IF t.k = "l"
    THEN \A i \in DOMAIN t.l : t.l[i].k = "none" \/ is_base_type(t.l[i])
    ELSE FALSE

\* r = v, then F(r): the result of a call, named once for what follows it
With(v, F(_)) == F(v)

(***************************************************************************)
(* dict[Type, Type]: entries [k, v] in insertion order                     *)
(***************************************************************************)
Has(d, key) == \E i \in DOMAIN d : d[i].k = key

Get(d, key) == d[CHOOSE i \in DOMAIN d : d[i].k = key].v

\* d[key] = val: an existing key keeps its place, a new one goes last
Put(d, key, val) ==
    IF Has(d, key)
    THEN [i \in DOMAIN d |-> IF d[i].k = key THEN [k |-> d[i].k, v |-> val] ELSE d[i]]
    ELSE Append(d, [k |-> key, v |-> val])

(***************************************************************************)
(* type_inference.py: unify_vars                                           *)
(***************************************************************************)
RECURSIVE unify_vars(_, _, _), UnifyZip(_, _, _, _)

\* [unify_vars(x1, x2, solutions) for x1, x2 in zip(t1, t2)] from position i:
\* zip stops at the end of the shorter list
UnifyZip(t1, t2, i, solutions) ==
    IF i > Len(t1) \/ i > Len(t2) THEN [ok |-> TRUE, sol |-> solutions, err |-> ""]
    ELSE With(unify_vars(t1[i], t2[i], solutions),
              LAMBDA r : IF r.ok THEN UnifyZip(t1, t2, i + 1, r.sol) ELSE r)

\* the case analysis on (one.is_base_type(), two.is_base_type()), reached when
\* one # two and neither is a key of solutions
UnifyEnds(one, two, solutions) ==
    IF is_base_type(one) /\ is_base_type(two)
    THEN \* assert one == two
         [ok |-> FALSE, sol |-> solutions, err |-> "PrimitiveTypesDontMatch"]
    ELSE IF is_base_type(one)
    THEN [ok |-> TRUE, sol |-> Put(solutions, two, one), err |-> ""]
    ELSE [ok |-> TRUE, sol |-> Put(solutions, one, two), err |-> ""]

\* unify_vars(one, two, solutions): [ok, sol, err]; sol is the dict as the
\* call leaves it, also when it raises
unify_vars(one, two, solutions) ==
    IF one.k = "l" /\ two.k = "l" THEN UnifyZip(one.l, two.l, 1, solutions)
    ELSE IF one.k = "none" \/ two.k = "none"
    THEN [ok |-> FALSE, sol |-> solutions, err |-> "InvalidTypes"]
    ELSE IF one = two THEN [ok |-> TRUE, sol |-> solutions, err |-> ""]
    ELSE IF Has(solutions, one) THEN unify_vars(Get(solutions, one), two, solutions)
    ELSE IF Has(solutions, two) THEN unify_vars(one, Get(solutions, two), solutions)
    ELSE UnifyEnds(one, two, solutions)

(***************************************************************************)
(* type_inference.py: convert_type, simplify_unification                   *)
(*                                                                         *)
(* Every Type that unify_vars stores is a clone, so a value's cells are    *)
(* its own and demote_constraint's t.set(unified[t]) changes one position  *)
(* of one value.  set() of a list value makes the position share that      *)
(* list's element cells with unified[t]; the model copies the value        *)
(* instead, which gives the same dict whenever the chains are acyclic and  *)
(* end within the rounds, the sharing only resolving a shared cell sooner. *)
(***************************************************************************)
SimplifyRounds == 10

RECURSIVE VisitsNone(_, _)
\* convert_type(base_t, t, ..) reaches an element that is None (t.type raises)
VisitsNone(base_t, t) ==
    IF t.k = "none" THEN TRUE
    ELSE IF t = base_t THEN FALSE
    ELSE IF t.k = "l" THEN \E i \in DOMAIN t.l : VisitsNone(base_t, t.l[i])
    ELSE FALSE

RECURSIVE convert_type(_, _, _)
\* convert_type(base_t, t, demote_constraint): t after the call
convert_type(base_t, t, unified) ==
    IF t = base_t THEN t
    ELSE IF t.k = "a"
    THEN \* demote_constraint(t)
         IF Has(unified, t) /\ t # Get(unified, t) THEN Get(unified, t) ELSE t
    ELSE TupleT([i \in DOMAIN t.l |-> convert_type(base_t, t.l[i], unified)])

\* the body of "for u in unified" for the entry at position i
SimplifyEntry(unified, i) ==
    IF is_base_type(unified[i].v) THEN [ok |-> TRUE, sol |-> unified]
    ELSE IF VisitsNone(unified[i].k, unified[i].v) THEN [ok |-> FALSE, sol |-> unified]
    ELSE [ok |-> TRUE,
          sol |-> [unified EXCEPT ![i].v = convert_type(unified[i].k, unified[i].v, unified)]]

RECURSIVE SimplifyRange(_, _, _)
\* for u in unified: ..., for the entries lo..hi in order (the range is
\* halved so that the evaluation is not as deep as the dict is long)
SimplifyRange(unified, lo, hi) ==
    IF lo > hi THEN [ok |-> TRUE, sol |-> unified]
    ELSE IF lo = hi THEN SimplifyEntry(unified, lo)
    ELSE With(SimplifyRange(unified, lo, (lo + hi) \div 2),
              LAMBDA r : IF r.ok THEN SimplifyRange(r.sol, (lo + hi) \div 2 + 1, hi)
                         ELSE r)

\* one round: for u in unified: ...
SimplifyPass(unified) == SimplifyRange(unified, 1, Len(unified))

RECURSIVE SimplifyLoop(_, _)
\* for _ in range(0, rounds): ...
SimplifyLoop(unified, rounds) ==
    IF rounds = 0 THEN [ok |-> TRUE, sol |-> unified]
    ELSE With(SimplifyPass(unified),
              LAMBDA r : IF r.ok THEN SimplifyLoop(r.sol, rounds - 1) ELSE r)

\* simplify_unification with a single round
SimplifyOnce(unified) == SimplifyLoop(unified, 1)

\* simplify_unification(unified): [ok, sol]
simplify_unification(unified) == SimplifyLoop(unified, SimplifyRounds)

RECURSIVE UnifyRange(_, _, _, _)
\* for c in constraints: unify_vars(c.lhs, c.rhs, solutions), for the
\* constraints lo..hi in order (the range is halved, as in SimplifyRange)
UnifyRange(constraints, lo, hi, solutions) ==
    IF lo > hi THEN [ok |-> TRUE, sol |-> solutions, err |-> ""]
    ELSE IF lo = hi
    THEN unify_vars(constraints[lo].lhs, constraints[lo].rhs, solutions)
    ELSE With(UnifyRange(constraints, lo, (lo + hi) \div 2, solutions),
              LAMBDA r : IF r.ok
                         THEN UnifyRange(constraints, (lo + hi) \div 2 + 1, hi, r.sol)
                         ELSE r)

\* for c in constraints: unify_vars(c.lhs, c.rhs, solutions)
UnifyAll(constraints, solutions) ==
    UnifyRange(constraints, 1, Len(constraints), solutions)

\* unify_constraints(constraints): [ok, sol, err]
unify_constraints(constraints) ==
    With(UnifyAll(constraints, <<>>),
         LAMBDA r :
             IF ~r.ok THEN r
             ELSE With(simplify_unification(r.sol),
                       LAMBDA q : [ok |-> q.ok, sol |-> q.sol,
                                   err |-> IF q.ok THEN "" ELSE "AttributeError"]))

(***************************************************************************)
(* unify_vars called again and again on one solutions dict, as              *)
(* unify_constraints and unify_type_dicts call it.  A call that raises      *)
(* ends the run.                                                            *)
(***************************************************************************)
MaxCalls == 4

V_A == AtomT(<<"A">>)
V_X == AtomT(<<"X">>)
V_Y == AtomT(<<"Y">>)

BaseTypes == {IntT, FloatT, VoidT}

\* the Types a call is given: a variable, the base types, two one-element
\* tuples of variables and a two-element tuple
UnifyInputs ==
    BaseTypes \cup {V_A, TupleT(<<V_X>>), TupleT(<<V_Y>>), TupleT(<<IntT, FloatT>>)}

InitUnify ==
    /\ pc = "unify"
    /\ src = <<>>
    /\ words = <<>>
    /\ rewords = <<>>
    /\ tree = EmptyNode
    /\ functions = <<>>
    /\ name_counter = 1
    /\ err = ""
    /\ subst = <<>>
    /\ calls = <<>>
    /\ todo = <<>>
    /\ type_var_counter = 0
    /\ application = NoType
    /\ resulting_type = NoType
    /\ type_solutions = <<>>
    /\ fn_defs = <<>>

\* unify_vars(one, two, solutions)
UnifyVars ==
    /\ pc = "unify"
    /\ Len(calls) < MaxCalls
    /\ \E one \in UnifyInputs, two \in UnifyInputs :
          LET r == unify_vars(one, two, subst)
          IN  /\ subst' = r.sol
              /\ calls' = Append(calls, [one |-> one, two |-> two, pre |-> subst,
                                         ok |-> r.ok, err |-> r.err])
              /\ pc' = IF r.ok THEN "unify" ELSE "failed"
              /\ err' = r.err
    /\ UNCHANGED <<lexvars, frontvars, todo, pipevars>>

NextUnify == UnifyVars

SpecUnify == InitUnify /\ [][NextUnify]_vars

RECURSIVE LengthsDiffer(_, _, _)
\* unify_vars(one, two, solutions) comes to compare two tuples of different
\* lengths, given directly or as the mapped values it follows
LengthsDiffer(one, two, solutions) ==
    IF one.k = "l" /\ two.k = "l" THEN Len(one.l) # Len(two.l)
    ELSE IF one = two THEN FALSE
    ELSE IF Has(solutions, one) THEN LengthsDiffer(Get(solutions, one), two, solutions)
    ELSE IF Has(solutions, two) THEN LengthsDiffer(one, Get(solutions, two), solutions)
    ELSE FALSE

\* C3: a unify_vars call that meets two tuples of different lengths raises
\* an arity-mismatch error and returns no substitution map.
C3_ArityMismatchRaises ==
    \A i \in DOMAIN calls :
        LengthsDiffer(calls[i].one, calls[i].two, calls[i].pre)
            => ~calls[i].ok /\ calls[i].err = "ArityMismatch"

RECURSIVE ChainEnd(_, _)
\* the Type at the end of the chain of mapped values that starts at t
ChainEnd(t, solutions) ==
    IF Has(solutions, t) THEN ChainEnd(Get(solutions, t), solutions) ELSE t

IsAtomicBase(t) == t.k = "a" /\ is_base_type(t)

IsVariable(t) == t.k = "a" /\ ~is_base_type(t)

\* the pairs of Types that successful calls have asserted equal
Asserted == {<<calls[i].one, calls[i].two>> : i \in {j \in DOMAIN calls : calls[j].ok}}

RECURSIVE EqualTo(_, _)
\* the Types equal to one of S by symmetry and transitivity of the pairs E
EqualTo(S, E) ==
    LET N == S \cup {e[2] : e \in {f \in E : f[1] \in S}}
               \cup {e[1] : e \in {f \in E : f[2] \in S}}
    IN  IF N = S THEN S ELSE EqualTo(N, E)

\* a call on two atomic Types whose chains end at two different base types
\* raises the base-type conflict
C4_ConflictRaises ==
    \A i \in DOMAIN calls :
        LET c == calls[i]
            e1 == ChainEnd(c.one, c.pre)
            e2 == ChainEnd(c.two, c.pre)
        IN  (c.one.k = "a" /\ c.two.k = "a" /\ IsAtomicBase(e1) /\ IsAtomicBase(e2) /\ e1 # e2)
                => ~c.ok /\ c.err = "PrimitiveTypesDontMatch"

\* no variable is asserted equal to two different base types
C4_NoDoubleAssertion ==
    \A v \in {t \in UnifyInputs : IsVariable(t)} :
        Cardinality(EqualTo({v}, Asserted) \cap BaseTypes) <= 1

\* C4: on every map reached by successful calls, unifying two different
\* base types (given directly or reached through variables) raises, and no
\* sequence of successful calls asserts a variable equal to two different
\* base types.
C4_BaseConflict == C4_ConflictRaises /\ C4_NoDoubleAssertion

(***************************************************************************)
(* unify_constraints on a list of constraints, in its two steps: the loop   *)
(* of unify_vars calls that builds the map, then simplify_unification.      *)
(***************************************************************************)
MaxConstraints == 2

V_B == AtomT(<<"B">>)

Constraint(lhs, rhs) == [lhs |-> lhs, rhs |-> rhs]

\* the Types of the short constraint lists
SolveTypes == {V_A, V_B, IntT, FloatT, TupleT(<<V_B>>), TupleT(<<V_X, IntT>>)}

\* Unknown-1 .. Unknown-n as get_unknown_type_var() names them
ChainVar(i) == AtomT(<<"U", "n", "k", "n", "o", "w", "n", "-">> \o IntStr(i))

\* v1 == v2, v2 == v3, .., vn == int: a chain of n links, first link first
ChainForward(n) ==
    [i \in 1..n |-> Constraint(ChainVar(i), IF i = n THEN IntT ELSE ChainVar(i + 1))]

\* the same constraints, last link first
ChainBackward(n) == [i \in 1..n |-> ChainForward(n)[n + 1 - i]]

\* the longest chain that SimplifyRounds rounds resolve in every order
LongChain == 2 ^ SimplifyRounds

SolveInputs ==
    {[i \in DOMAIN c |-> Constraint(c[i][1], c[i][2])] :
        c \in SeqsUpTo(SolveTypes \X SolveTypes, MaxConstraints)}
    \cup {ChainForward(n) : n \in {3, LongChain, LongChain + 1}}
    \cup {ChainBackward(n) : n \in {3, LongChain + 1}}

InitSolve ==
    /\ pc = "constraints"
    /\ todo \in SolveInputs
    /\ src = <<>>
    /\ words = <<>>
    /\ rewords = <<>>
    /\ tree = EmptyNode
    /\ functions = <<>>
    /\ name_counter = 1
    /\ err = ""
    /\ subst = <<>>
    /\ calls = <<>>
    /\ type_var_counter = 0
    /\ application = NoType
    /\ resulting_type = NoType
    /\ type_solutions = <<>>
    /\ fn_defs = <<>>

\* solutions = {}; for c in constraints: unify_vars(c.lhs, c.rhs, solutions)
UnifyConstraints ==
    /\ pc = "constraints"
    /\ LET r == UnifyAll(todo, <<>>)
       IN  /\ subst' = r.sol
           /\ pc' = IF r.ok THEN "unified" ELSE "failed"
           /\ err' = r.err
    /\ UNCHANGED <<lexvars, frontvars, calls, todo, pipevars>>

\* simplify_unification(solutions)
Simplify ==
    /\ pc = "unified"
    /\ LET q == simplify_unification(subst)
       IN  /\ subst' = q.sol
           /\ pc' = IF q.ok THEN "simplified" ELSE "failed"
           /\ err' = IF q.ok THEN err ELSE "AttributeError"
    /\ UNCHANGED <<lexvars, frontvars, calls, todo, pipevars>>

NextSolve == UnifyConstraints \/ Simplify

SpecSolve == InitSolve /\ [][NextSolve]_vars

RECURSIVE VarsOf(_)
\* the type variables (atomic Types that are not base types) inside t
VarsOf(t) ==
    IF t.k = "a" THEN (IF is_base_type(t) THEN {} ELSE {t})
    ELSE IF t.k = "l" THEN UNION {VarsOf(t.l[i]) : i \in DOMAIN t.l}
    ELSE {}

KeysOf(d) == {d[i].k : i \in DOMAIN d}

RECURSIVE EndsAtBase(_, _, _)
\* the keys of d whose chains of mapped values end at base types within n
\* links, given that those of R do: a key does when every variable inside
\* its mapped value is a key that does with one link less
EndsAtBase(d, R, n) ==
    LET N == R \cup {d[i].k : i \in {j \in DOMAIN d : VarsOf(d[j].v) \subseteq R}}
    IN  IF n = 0 \/ N = R THEN R ELSE EndsAtBase(d, N, n - 1)

\* the chain from every key of d ends at a base type
AllChainsEnd(d) == EndsAtBase(d, {}, Len(d)) = KeysOf(d)

\* the chain from every key of d ends at a base type within n links
AllChainsWithin(d, n) == EndsAtBase(d, {}, n) = KeysOf(d)

\* every mapped value is a base type or a tuple of base types
AllBaseResolved(d) == \A i \in DOMAIN d : is_base_type(d[i].v)

S_Unknown == <<"U", "n", "k", "n", "o", "w", "n", "-">>
S_OperatorPlus == <<"O", "p", "e", "r", "a", "t", "o", "r", "+">>
S_OperatorTimes == <<"O", "p", "e", "r", "a", "t", "o", "r", "*">>

\* get_unknown_type_var(var_name): [name, cnt]; the counter is used and
\* stepped only when var_name is empty (or None)
get_unknown_type_var(var_name, cnt) ==
    IF var_name = <<>>
    THEN [name |-> S_Unknown \o IntStr(cnt + 1), cnt |-> cnt + 1]
    ELSE [name |-> S_Unknown \o var_name, cnt |-> cnt]

\* str.isnumeric() on the characters a token can hold
isnumeric(x) == x # <<>> /\ \A i \in DOMAIN x : x[i] \in Digits

\* AstNode(instr, [x]) with x a str
IsStrLeaf(n, instr) ==
    /\ n.instr = instr /\ n.oplist /\ Len(n.operands) = 1
    /\ n.operands[1].instr = "str"

AnnFail(cs, cnt, e) == [ok |-> FALSE, t |-> NoType, cs |-> cs, cnt |-> cnt, err |-> e]

AnnOk(t, cs, cnt) == [ok |-> TRUE, t |-> t, cs |-> cs, cnt |-> cnt, err |-> ""]

RECURSIVE type_annotator(_, _, _), AnnotateList(_, _, _, _)

\* [type_annotator(k, constraints) for k in nodes], with the types so far in
\* acc: [ok, ts, cs, cnt]
AnnotateList(nodes, acc, constraints, cnt) ==
    IF nodes = <<>>
    THEN [ok |-> TRUE, ts |-> acc, cs |-> constraints, cnt |-> cnt, err |-> ""]
    ELSE With(type_annotator(Head(nodes), constraints, cnt),
              LAMBDA r :
                  IF r.ok THEN AnnotateList(Tail(nodes), Append(acc, r.t), r.cs, r.cnt)
                  ELSE [ok |-> FALSE, ts |-> acc, cs |-> r.cs, cnt |-> r.cnt,
                        err |-> r.err])

\* type_annotator(fn, constraints); t is NoType when no case matches and the
\* code returns None
type_annotator(fn, constraints, cnt) ==
    IF fn.instr = "NumberConstant" /\ fn.oplist /\ Len(fn.operands) = 1
          /\ fn.operands[1].instr # "str"
    THEN \* x.isnumeric() of an AstNode
         AnnFail(constraints, cnt, "AttributeError")
    ELSE IF IsStrLeaf(fn, "NumberConstant") /\ isnumeric(fn.operands[1].s)
    THEN AnnOk(IntT, constraints, cnt)
    ELSE IF IsStrLeaf(fn, "NumberConstant") /\ is_number(fn.operands[1].s)
    THEN AnnOk(FloatT, constraints, cnt)
    ELSE IF IsStrLeaf(fn, "String1") \/ fn.instr = "str"
    THEN LET var_name == IF fn.instr = "str" THEN fn.s ELSE fn.operands[1].s
             v == get_unknown_type_var(var_name, cnt)
         IN  AnnOk(AtomT(v.name), constraints, v.cnt)
    ELSE IF fn.instr \in {"Add", "Mult"} /\ fn.oplist /\ Len(fn.operands) = 2
    THEN With(type_annotator(fn.operands[1], constraints, cnt),
              LAMBDA lhs :
                  IF ~lhs.ok THEN lhs
                  ELSE With(type_annotator(fn.operands[2], lhs.cs, lhs.cnt),
                            LAMBDA rhs :
                                IF ~rhs.ok THEN rhs
                                ELSE LET v == get_unknown_type_var(<<>>, rhs.cnt)
                                         result_type == AtomT(v.name)
                                         param_types ==
                                             TupleT(<<lhs.t, rhs.t, result_type>>)
                                     IN  AnnOk(result_type,
                                               Append(rhs.cs,
                                                      Constraint(AtomT(S_OperatorPlus),
                                                                 param_types)),
                                               v.cnt)))
    ELSE IF fn.instr = "Negate" /\ fn.oplist /\ Len(fn.operands) = 1
    THEN With(type_annotator(fn.operands[1], constraints, cnt),
              LAMBDA val :
                  IF ~val.ok THEN val
                  ELSE AnnOk(val.t, Append(val.cs, Constraint(val.t, IntT)), val.cnt))
    ELSE IF fn.instr = "Unknown" /\ fn.oplist /\ Len(fn.operands) >= 1
              /\ IsStrLeaf(fn.operands[1], "String1")
    THEN LET v == get_unknown_type_var(<<>>, cnt)
             return_type == AtomT(v.name)
             fn_name_type == AtomT(fn.operands[1].operands[1].s)
         IN  With(AnnotateList(Tail(fn.operands), <<>>, constraints, v.cnt),
                  LAMBDA ps :
                      IF ~ps.ok THEN AnnFail(ps.cs, ps.cnt, ps.err)
                      ELSE AnnOk(return_type,
                                 Append(ps.cs,
                                        Constraint(fn_name_type,
                                                   TupleT(Append(ps.ts, return_type)))),
                                 ps.cnt))
    ELSE IF fn.instr = "Unknown" /\ fn.oplist
    THEN With(AnnotateList(fn.operands, <<>>, constraints, cnt),
              LAMBDA os :
                  IF ~os.ok THEN AnnFail(os.cs, os.cnt, os.err)
                  ELSE IF os.ts = <<>>
                  THEN \* operands_type[-1] of an empty list
                       AnnFail(os.cs, os.cnt, "IndexError")
                  ELSE AnnOk(os.ts[Len(os.ts)], os.cs, os.cnt))
    ELSE AnnOk(NoType, constraints, cnt)

(***************************************************************************)
(* function_stub.py: fn_type_annotator, FunctionStub.annotate_type         *)
(***************************************************************************)
\* fn_type_annotator(fn, constraints): [ok, t, cs, cnt, err], t being my_type
fn_type_annotator(fn, constraints, cnt) ==
    LET my_type == AtomT(fn.name)
    IN  With(AnnotateList([i \in DOMAIN fn.params_list |-> PyStr(fn.params_list[i])],
                          <<>>, constraints, cnt),
             LAMBDA ps :
                 IF ~ps.ok THEN AnnFail(ps.cs, ps.cnt, ps.err)
                 ELSE With(type_annotator(fn.body, ps.cs, ps.cnt),
                           LAMBDA function_body_type :
                               IF ~function_body_type.ok THEN function_body_type
                               ELSE AnnOk(my_type,
                                          Append(function_body_type.cs,
                                                 Constraint(my_type,
                                                     TupleT(Append(ps.ts,
                                                         function_body_type.t)))),
                                          function_body_type.cnt)))

\* self.annotate_type(): [ok, stub, cnt, err]
annotate_type(self, cnt) ==
    With(fn_type_annotator(self, <<>>, cnt),
         LAMBDA a :
             IF ~a.ok THEN [ok |-> FALSE, stub |-> self, cnt |-> a.cnt, err |-> a.err]
             ELSE With(unify_constraints(a.cs),
                       LAMBDA u :
                           [ok |-> u.ok,
                            stub |-> IF u.ok
                                     THEN [self EXCEPT !.my_type = a.t,
                                                       !.intermediate_types = u.sol]
                                     ELSE [self EXCEPT !.my_type = a.t],
                            cnt |-> a.cnt, err |-> u.err]))

RECURSIVE AnnotateAll(_, _, _)
\* [f.annotate_type() for f in functions], from stub i on: [ok, stubs, cnt, err]
AnnotateAll(stubs, i, cnt) ==
    IF i > Len(stubs) THEN [ok |-> TRUE, stubs |-> stubs, cnt |-> cnt, err |-> ""]
    ELSE With(annotate_type(stubs[i], cnt),
              LAMBDA r :
                  IF r.ok THEN AnnotateAll([stubs EXCEPT ![i] = r.stub], i + 1, r.cnt)
                  ELSE [ok |-> FALSE, stubs |-> [stubs EXCEPT ![i] = r.stub],
                        cnt |-> r.cnt, err |-> r.err])

(***************************************************************************)
(* type_inference.py: unify_type_dicts; function_stub.py: unify_with_other *)
(***************************************************************************)
RECURSIVE UnifyShared(_, _, _, _)
\* the first loop of unify_type_dicts, from entry i of one on: the keys of
\* one that two has too are unified into ret_dict
UnifyShared(one, two, i, ret_dict) ==
    IF i > Len(one) THEN [ok |-> TRUE, sol |-> ret_dict, err |-> ""]
    ELSE LET o == one[i].k
         IN  IF Has(two, o)
             THEN With(unify_vars(Get(ret_dict, o), Get(two, o), ret_dict),
                       LAMBDA r : IF r.ok THEN UnifyShared(one, two, i + 1, r.sol)
                                  ELSE r)
             ELSE UnifyShared(one, two, i + 1, Put(ret_dict, o, one[i].v))

RECURSIVE CopyOthers(_, _, _, _)
\* the second loop: for o in two: if o not in one: ret_dict[o] = two[o]
CopyOthers(one, two, i, ret_dict) ==
    IF i > Len(two) THEN ret_dict
    ELSE CopyOthers(one, two, i + 1,
                    IF Has(one, two[i].k) THEN ret_dict
                    ELSE Put(ret_dict, two[i].k, two[i].v))

\* unify_type_dicts(one, two): [ok, sol, err]
unify_type_dicts(one, two) ==
    With(UnifyShared(one, two, 1, one),
         LAMBDA r : IF r.ok
                    THEN [ok |-> TRUE, sol |-> CopyOthers(one, two, 1, r.sol), err |-> ""]
                    ELSE r)

\* other == self.intermediate_types for two dicts
DictEq(d, e) ==
    /\ Len(d) = Len(e)
    /\ \A i \in DOMAIN d : Has(e, d[i].k) /\ Get(e, d[i].k) = d[i].v

\* self.unify_with_other(other): [ok, sol, err], sol the new intermediate_types
unify_with_other(self, other) ==
    IF DictEq(other, self.intermediate_types)
    THEN [ok |-> TRUE, sol |-> self.intermediate_types, err |-> ""]
    ELSE unify_type_dicts(self.intermediate_types, other)

(***************************************************************************)
(* function_stub.py: FunctionStub.apply_with_type                          *)
(***************************************************************************)
\* len(t.type): of the list, or of the str
TypeLen(t) == IF t.k = "l" THEN Len(t.l) ELSE Len(t.s)

ApplyFail(d, e) == [ok |-> FALSE, t |-> NoType, sol |-> d, err |-> e]

\* self.apply_with_type(args): [ok, t, sol, err]; sol is the local solution,
\* a deep copy of self.intermediate_types that the call unifies and
\* simplifies, t is solution[self.my_type]
apply_with_type(self, args) ==
    IF args.k # "l" THEN ApplyFail(<<>>, "CompileFailed")
    ELSE IF ~Has(self.intermediate_types, self.my_type) THEN ApplyFail(<<>>, "KeyError")
    ELSE IF Len(args.l) # TypeLen(Get(self.intermediate_types, self.my_type))
    THEN ApplyFail(<<>>, "AssertionError")
    ELSE With(unify_vars(self.my_type, args, self.intermediate_types),
              LAMBDA u :
                  IF ~u.ok THEN ApplyFail(u.sol, u.err)
                  ELSE With(simplify_unification(u.sol),
                            LAMBDA q :
                                IF ~q.ok THEN ApplyFail(q.sol, "AttributeError")
                                ELSE IF ~AllBaseResolved(q.sol)
                                THEN ApplyFail(q.sol, "TypeMustBeFullyResolved")
                                ELSE [ok |-> TRUE, t |-> Get(q.sol, self.my_type),
                                      sol |-> q.sol, err |-> ""]))

(***************************************************************************)
(* astnode.py: BaseAst.  Every node is [kind, name, args, type]:           *)
(*   UnresolvedVariableLoad(variable)   name = variable                    *)
(*   ConstantLoad(type, constant)       name = constant                    *)
(*   UnresolvedFnApp(fn, params)        name = fn, args = params           *)
(*   ProgN(programs)                    args = programs                    *)
(*   FunctionApplication(fn, params)    name = fn.name, args = params      *)
(* A TypedFnDef is [name, params, body, return_type], params a list of     *)
(* VariableDefs [name, type].                                              *)
(***************************************************************************)
UnresolvedVariableLoad(variable) ==
    [kind |-> "UnresolvedVariableLoad", name |-> variable, args |-> <<>>, type |-> NoType]

ConstantLoad(type, constant) ==
    [kind |-> "ConstantLoad", name |-> constant, args |-> <<>>, type |-> type]

UnresolvedFnApp(fn, params) ==
    [kind |-> "UnresolvedFnApp", name |-> fn, args |-> params, type |-> NoType]

ProgN(programs) ==
    [kind |-> "ProgN", name |-> <<>>, args |-> programs, type |-> NoType]

FunctionApplication(fn, params) ==
    [kind |-> "FunctionApplication", name |-> fn, args |-> params, type |-> NoType]

VariableDef(name, type) == [name |-> name, type |-> type]

TypedFnDef(name, params, body, return_type) ==
    [name |-> name, params |-> params, body |-> body, return_type |-> return_type]

NoAst == [kind |-> "None", name |-> <<>>, args |-> <<>>, type |-> NoType]

(***************************************************************************)
(* compiler.py: type_lookup, convert_to_baseast                            *)
(***************************************************************************)
\* type_lookup(d, k) for a str k: d[type_annotator(k, [])]
type_lookup(d, k) ==
    LET type_string == AtomT(get_unknown_type_var(k, 0).name)
    IN  IF Has(d, type_string) THEN [ok |-> TRUE, t |-> Get(d, type_string)]
        ELSE [ok |-> FALSE, t |-> NoType]

\* type_lookup(d, k) for a Type k: d[k]
TypeLookupOfType(d, k) ==
    IF Has(d, k) THEN [ok |-> TRUE, t |-> Get(d, k)] ELSE [ok |-> FALSE, t |-> NoType]

RECURSIVE create_variable_defs(_, _, _)
\* create_variable_defs(params), with the VariableDefs so far in ret
create_variable_defs(params, solutions, ret) ==
    IF params = <<>> THEN [ok |-> TRUE, defs |-> ret]
    ELSE With(type_lookup(solutions, Head(params)),
              LAMBDA p_type :
                  IF p_type.ok
                  THEN create_variable_defs(Tail(params), solutions,
                           Append(ret, VariableDef(Head(params), p_type.t)))
                  ELSE [ok |-> FALSE, defs |-> ret])

IterFail == [ok |-> FALSE, ast |-> NoAst, asts |-> <<>>]

RECURSIVE iter_node(_), IterList(_, _)

\* [iter_node(x) for x in nodes], with the results so far in acc
IterList(nodes, acc) ==
    IF nodes = <<>> THEN [ok |-> TRUE, ast |-> NoAst, asts |-> acc]
    ELSE With(iter_node(Head(nodes)),
              LAMBDA r : IF r.ok THEN IterList(Tail(nodes), Append(acc, r.ast))
                         ELSE IterFail)

\* iter_node(n): [ok, ast]; not ok when the code raises
iter_node(n) ==
    IF n.instr = "String1" THEN
        IF n.oplist /\ Len(n.operands) >= 1
        THEN [ok |-> TRUE, ast |-> UnresolvedVariableLoad(n.operands[1].s), asts |-> <<>>]
        ELSE IterFail
    ELSE IF n.instr = "NumberConstant" THEN
        IF n.oplist /\ Len(n.operands) >= 1
        THEN [ok |-> TRUE, ast |-> ConstantLoad(IntT, n.operands[1].s), asts |-> <<>>]
        ELSE IterFail
    ELSE IF n.instr \in {"Add", "Mult"} THEN
        IF n.oplist /\ Len(n.operands) = 2
        THEN LET name == IF n.instr = "Add" THEN S_OperatorPlus ELSE S_OperatorTimes
             IN  With(IterList(n.operands, <<>>),
                      LAMBDA r :
                          IF r.ok
                          THEN [ok |-> TRUE, ast |-> UnresolvedFnApp(name, r.asts),
                                asts |-> <<>>]
                          ELSE IterFail)
        ELSE IterFail
    ELSE IF n.instr = "Unknown" THEN
        IF ~n.oplist \/ n.operands = <<>> \/ n.operands[1].instr = "str"
        THEN \* n.operands[0].instr raises
             IterFail
        ELSE IF n.operands[1].instr = "String1"
        THEN IF IsStrLeaf(n.operands[1], "String1")
             THEN With(IterList(Tail(n.operands), <<>>),
                       LAMBDA r :
                           IF r.ok
                           THEN [ok |-> TRUE,
                                 ast |-> UnresolvedFnApp(n.operands[1].operands[1].s,
                                                         r.asts),
                                 asts |-> <<>>]
                           ELSE IterFail)
             ELSE IterFail
        ELSE IF \A i \in DOMAIN n.operands : n.operands[i].instr = "Unknown"
        THEN With(IterList(n.operands, <<>>),
                  LAMBDA r : IF r.ok
                             THEN [ok |-> TRUE, ast |-> ProgN(r.asts), asts |-> <<>>]
                             ELSE IterFail)
        ELSE IterFail
    ELSE IterFail

\* convert_to_baseast(a, type_solutions): [ok, def, err]
convert_to_baseast(a, solutions) ==
    With(create_variable_defs(a.params_list, solutions, <<>>),
         LAMBDA params :
             IF ~params.ok THEN [ok |-> FALSE, def |-> NoAst, err |-> "KeyError"]
             ELSE With(iter_node(a.body),
                       LAMBDA body :
                           IF ~body.ok
                           THEN [ok |-> FALSE, def |-> NoAst, err |-> "RuntimeError"]
                           ELSE With(TypeLookupOfType(solutions, a.my_type),
                                     LAMBDA return_type :
                                         IF ~return_type.ok
                                         THEN [ok |-> FALSE, def |-> NoAst,
                                               err |-> "KeyError"]
                                         ELSE [ok |-> TRUE,
                                               def |-> TypedFnDef(a.name, params.defs,
                                                           body.ast, return_type.t),
                                               err |-> ""])))

RECURSIVE ConvertAll(_, _, _)
\* [convert_to_baseast(f, type_solutions) for f in functions], with the
\* results so far in acc
ConvertAll(stubs, solutions, acc) ==
    IF stubs = <<>> THEN [ok |-> TRUE, defs |-> acc, err |-> ""]
    ELSE With(convert_to_baseast(Head(stubs), solutions),
              LAMBDA r :
                  IF r.ok THEN ConvertAll(Tail(stubs), solutions, Append(acc, r.def))
                  ELSE [ok |-> FALSE, defs |-> acc, err |-> r.err])

(***************************************************************************)
(* compiler.py: resolve_all_function_calls                                 *)
(***************************************************************************)
\* the keys of function_name_map = {x.name: x for x in functions}
FunctionNames(defs) == {defs[i].name : i \in DOMAIN defs}

ResolveFail == [ok |-> FALSE, ast |-> NoAst, asts |-> <<>>]

\* the resolver that leaves a call of an unknown function as it is
RECURSIVE LenientResolver(_, _), LenientList(_, _, _)

LenientList(asts, names, acc) ==
    IF asts = <<>> THEN [ok |-> TRUE, ast |-> NoAst, asts |-> acc]
    ELSE LenientList(Tail(asts), names, Append(acc, LenientResolver(Head(asts), names).ast))

LenientResolver(a, names) ==
    IF a.kind = "UnresolvedFnApp"
    THEN With(LenientList(a.args, names, <<>>),
              LAMBDA resolved_params :
                  [ok |-> TRUE,
                   ast |-> IF a.name \in names
                           THEN FunctionApplication(a.name, resolved_params.asts)
                           ELSE UnresolvedFnApp(a.name, resolved_params.asts),
                   asts |-> <<>>])
    ELSE IF a.kind = "ProgN"
    THEN [ok |-> TRUE, ast |-> ProgN(LenientList(a.args, names, <<>>).asts), asts |-> <<>>]
    ELSE [ok |-> TRUE, ast |-> a, asts |-> <<>>]

RECURSIVE recursive_resolver(_, _), ResolveList(_, _, _)

\* [recursive_resolver(p) for p in asts], with the results so far in acc
ResolveList(asts, names, acc) ==
    IF asts = <<>> THEN [ok |-> TRUE, ast |-> NoAst, asts |-> acc]
    ELSE With(recursive_resolver(Head(asts), names),
              LAMBDA r : IF r.ok THEN ResolveList(Tail(asts), names, Append(acc, r.ast))
                         ELSE ResolveFail)

\* recursive_resolver(a) for a body node a: [ok, ast]; not ok is the KeyError
\* of function_name_map[fn]
recursive_resolver(a, names) ==
    IF a.kind = "UnresolvedFnApp"
    THEN With(ResolveList(a.args, names, <<>>),
              LAMBDA resolved_params :
                  IF resolved_params.ok /\ a.name \in names
                  THEN [ok |-> TRUE,
                        ast |-> FunctionApplication(a.name, resolved_params.asts),
                        asts |-> <<>>]
                  ELSE ResolveFail)
    ELSE IF a.kind = "ProgN"
    THEN With(ResolveList(a.args, names, <<>>),
              LAMBDA programs :
                  IF programs.ok
                  THEN [ok |-> TRUE, ast |-> ProgN(programs.asts), asts |-> <<>>]
                  ELSE ResolveFail)
    ELSE [ok |-> TRUE, ast |-> a, asts |-> <<>>]

RECURSIVE ResolveDefs(_, _, _)
\* list(map(recursive_resolver, functions)), from definition i on: the
\* TypedFnDef case sets a.body in place
ResolveDefs(defs, i, names) ==
    IF i > Len(defs) THEN [ok |-> TRUE, defs |-> defs]
    ELSE With(recursive_resolver(defs[i].body, names),
              LAMBDA r :
                  IF r.ok THEN ResolveDefs([defs EXCEPT ![i].body = r.ast], i + 1, names)
                  ELSE [ok |-> FALSE, defs |-> defs])

\* resolve_all_function_calls(functions): [ok, defs]
resolve_all_function_calls(defs) == ResolveDefs(defs, 1, FunctionNames(defs))

(***************************************************************************)
(* compiler.py: the module-level driver after separate_defuns              *)
(***************************************************************************)
S_main == <<"m", "a", "i", "n">>
S_sqrt == <<"s", "q", "r", "t">>
S_pow == <<"p", "o", "w">>
S_sqrti == <<"s", "q", "r", "t", "i">>
S_normiEE == <<"n", "o", "r", "m", "i", "E", "E">>

\* std_types
std_types ==
    <<[k |-> AtomT(S_sqrt), v |-> TupleT(<<FloatT, FloatT>>)],
      [k |-> AtomT(S_pow), v |-> TupleT(<<FloatT, FloatT>>)],
      [k |-> AtomT(S_sqrti), v |-> TupleT(<<IntT, FloatT>>)],
      [k |-> AtomT(S_normiEE), v |-> TupleT(<<IntT, IntT, IntT, FloatT>>)]>>

HasMain(stubs) == \E i \in DOMAIN stubs : stubs[i].name = S_main

\* main_fn = next(x for x in functions if x.name == "main"), as an index
MainIndex(stubs) ==
    CHOOSE i \in DOMAIN stubs :
        /\ stubs[i].name = S_main
        /\ \A j \in 1..(i - 1) : stubs[j].name # S_main

RECURSIVE MergeAll(_, _, _)
\* [main_fn.unify_with_other(f.intermediate_types) for f in functions], from
\* stub i on; main_fn is stubs[m]
MergeAll(stubs, m, i) ==
    IF i > Len(stubs) THEN [ok |-> TRUE, stubs |-> stubs, err |-> ""]
    ELSE With(unify_with_other(stubs[m], stubs[i].intermediate_types),
              LAMBDA r :
                  IF r.ok
                  THEN MergeAll([stubs EXCEPT ![m].intermediate_types = r.sol], m, i + 1)
                  ELSE [ok |-> FALSE, stubs |-> stubs, err |-> r.err])

\* main_fn = next(..); [f.annotate_type() for f in functions]
Annotate ==
    /\ pc = "stubs"
    /\ IF ~HasMain(functions)
       THEN /\ pc' = "failed"
            /\ err' = "StopIteration"
            /\ UNCHANGED <<functions, type_var_counter>>
       ELSE \E r \in {AnnotateAll(functions, 1, type_var_counter)} :
                /\ functions' = r.stubs
                /\ type_var_counter' = r.cnt
                /\ pc' = IF r.ok THEN "annotated" ELSE "failed"
                /\ err' = r.err
    /\ UNCHANGED <<lexvars, tree, name_counter, typevars, application,
                   resulting_type, type_solutions, fn_defs>>

\* [main_fn.unify_with_other(f.intermediate_types) for f in functions]
Merge ==
    /\ pc = "annotated"
    /\ \E r \in {MergeAll(functions, MainIndex(functions), 1)} :
           /\ functions' = r.stubs
           /\ pc' = IF r.ok THEN "merged" ELSE "failed"
           /\ err' = r.err
    /\ UNCHANGED <<lexvars, tree, name_counter, typevars, pipevars>>

\* main_fn.unify_with_other(std_types)
MergeStd ==
    /\ pc = "merged"
    /\ \E m \in {MainIndex(functions)} :
       \E r \in {unify_with_other(functions[m], std_types)} :
           /\ functions' = IF r.ok THEN [functions EXCEPT ![m].intermediate_types = r.sol]
                           ELSE functions
           /\ pc' = IF r.ok THEN "primitives" ELSE "failed"
           /\ err' = r.err
    /\ UNCHANGED <<lexvars, tree, name_counter, typevars, pipevars>>

\* resulting_type = main_fn.apply_with_type(application)
Apply ==
    /\ pc = "primitives"
    /\ \E r \in {apply_with_type(functions[MainIndex(functions)], application)} :
           /\ resulting_type' = r.t
           /\ pc' = IF r.ok THEN "applied" ELSE "failed"
           /\ err' = r.err
    /\ UNCHANGED <<lexvars, frontvars, typevars, type_var_counter, application,
                   type_solutions, fn_defs>>

\* type_solutions = main_fn.intermediate_types
\* fn_defs = [convert_to_baseast(f, type_solutions) for f in functions]
Lower ==
    /\ pc = "applied"
    /\ type_solutions' = functions[MainIndex(functions)].intermediate_types
    /\ \E r \in {ConvertAll(functions, type_solutions', <<>>)} :
           /\ fn_defs' = IF r.ok THEN r.defs ELSE fn_defs
           /\ pc' = IF r.ok THEN "lowered" ELSE "failed"
           /\ err' = r.err
    /\ UNCHANGED <<lexvars, frontvars, typevars, type_var_counter, application,
                   resulting_type>>

\* fn_defs = resolve_all_function_calls(fn_defs)
Resolve ==
    /\ pc = "lowered"
    /\ \E r \in {resolve_all_function_calls(fn_defs)} :
           /\ fn_defs' = r.defs
           /\ pc' = IF r.ok THEN "resolved" ELSE "failed"
           /\ err' = IF r.ok THEN err ELSE "KeyError"
    /\ UNCHANGED <<lexvars, frontvars, typevars, type_var_counter, application,
                   resulting_type, type_solutions>>

(***************************************************************************)
(* The whole driver, from the source text to the resolved definitions, on  *)
(* the driver's own sample program and on small programs: main with no or  *)
(* one parameter and a body of constants, variables, calls and sequences   *)
(* of calls, alone or followed by definitions of f and g; main is          *)
(* specialized against the driver's (void) and four more invocation types. *)
(***************************************************************************)
SampleSrc ==
    <<"(", "d", "e", "f", "u", "n", " ", "n", "o", "r", "m", "(", "x", " ", "y", " ", "z", ")", " ", "(", "s", "q", "r", "t", " ", "(", "+", " ", "(", "*", " ", " ", "x", " ", "x", ")", " ", "(", "*", " ", " ", "y", " ", "y", ")", " ", "(", "*", " ", " ", "z", " ", "z", ")", ")", ")", ")">>
    \o <<"(", "d", "e", "f", "u", "n", " ", "O", "p", "e", "r", "a", "t", "o", "r", "*", "(", "x", " ", "y", ")", " ", "(", "c", "o", "m", "p", "i", "l", "e", "r", "-", "i", "n", "t", "r", "i", "n", "s", "i", "c", ")", ")">>
    \o <<"(", "d", "e", "f", "u", "n", " ", "O", "p", "e", "r", "a", "t", "o", "r", "+", "(", "x", " ", "y", ")", " ", "(", "c", "o", "m", "p", "i", "l", "e", "r", "-", "i", "n", "t", "r", "i", "n", "s", "i", "c", ")", ")">>
    \o <<"(", "d", "e", "f", "u", "n", " ", "p", "o", "w", " ", "(", "x", " ", "e", "x", "p", ")", " ", "(", "c", "o", "m", "p", "i", "l", "e", "r", "-", "i", "n", "t", "r", "i", "n", "s", "i", "c", ")", ")">>
    \o <<"(", "d", "e", "f", "u", "n", " ", "p", "r", "i", "n", "t", " ", "(", "a", " ", "b", " ", "c", ")", " ", "(", "c", "o", "m", "p", "i", "l", "e", "r", "-", "i", "n", "t", "r", "i", "n", "s", "i", "c", ")", ")">>
    \o <<"(", "d", "e", "f", "u", "n", " ", "s", "q", "r", "t", "(", "x", ")", " ", "(", "p", "o", "w", " ", "x", " ", "0", ".", "5", ")", ")">>
    \o <<"(", "d", "e", "f", "u", "n", " ", "m", "a", "i", "n", "(", ")", " ", "(", "(", "n", "o", "r", "m", " ", "3", "0", ".", "0", " ", "2", "0", ".", "0", " ", "5", "0", ".", "0", ")", " ", "(", "p", "r", "i", "n", "t", " ", "1", " ", "2", " ", "3", ")", ")", ")">>

Tx == <<"x">>
Ty == <<"y">>
T1 == <<"1">>
Tf == <<"f">>
Tg == <<"g">>
Th == <<"h">>

\* ( defun name ( params ) body ) as tokens
DefunForm(name, params, body) == Wrap(<<S_defun, name>> \o Wrap(params) \o body)

PipeBodies ==
    { <<T1>>, <<Tx>>, Wrap(<<S_sqrt, Tx>>), Wrap(<<Tg, Tx>>),
      Wrap(Wrap(<<Tg, Tx>>) \o Wrap(<<Tg>> \o Wrap(<<Th, T1>>))),
      Wrap(<<<<"+">>, Tx, T1>>),
      Wrap(<<Tf>> \o Wrap(<<Tg, T1>>)),
      Wrap(Wrap(<<Tf, T1>>) \o Wrap(<<Tg, T1>>)) }

PipeParams == { <<>>, <<Tx>> }

DefF == DefunForm(Tf, <<Ty>>, <<Ty>>)
DefG == DefunForm(Tg, <<Ty>>, Wrap(<<S_sqrt, Ty>>))

PipeExtras == { <<>>, DefF, DefG, DefF \o DefG }

PipeSources ==
    {SampleSrc} \cup
    {JoinSpace(DefunForm(S_main, p, b) \o e) :
        p \in PipeParams, b \in PipeBodies, e \in PipeExtras}

VoidApplication == TupleT(<<VoidT>>)

Applications ==
    {VoidApplication, TupleT(<<IntT>>), TupleT(<<FloatT>>),
     TupleT(<<IntT, IntT>>), TupleT(<<FloatT, FloatT>>)}

InitPipe ==
    /\ pc = "text"
    /\ src \in PipeSources
    /\ application \in Applications
    /\ words = <<>>
    /\ rewords = <<>>
    /\ tree = EmptyNode
    /\ functions = <<>>
    /\ name_counter = 1
    /\ err = ""
    /\ subst = <<>>
    /\ calls = <<>>
    /\ todo = <<>>
    /\ type_var_counter = 0
    /\ resulting_type = NoType
    /\ type_solutions = <<>>
    /\ fn_defs = <<>>

NextPipe ==
    \/ Lex \/ Parse \/ Flatten \/ Separate
    \/ Annotate \/ Merge \/ MergeStd \/ Apply \/ Lower \/ Resolve

SpecPipe == InitPipe /\ [][NextPipe]_vars

\* convert_to_baseast has run on every stub without an error
Lowered == pc \in {"lowered", "resolved"}

\* C1: when annotation, merging, specialization and lowering have all
\* completed without an error, every parameter of every typed function
\* definition carries an atomic base type (int, float or void), never a type
\* variable.
C1_ParamsAreBase ==
    Lowered =>
        \A i \in DOMAIN fn_defs :
            \A j \in DOMAIN fn_defs[i].params : IsAtomicBase(fn_defs[i].params[j].type)

S_norm == <<"n", "o", "r", "m">>

\* the typed definition of norm has three float parameters and returns float
NormIsFloat ==
    \A i \in DOMAIN fn_defs :
        fn_defs[i].name = S_norm =>
            /\ Len(fn_defs[i].params) = 3
            /\ \A j \in DOMAIN fn_defs[i].params : fn_defs[i].params[j].type = FloatT
            /\ fn_defs[i].return_type = FloatT

\* C2: on the driver's sample program, specializing main against (void)
\* completes without a fatal error and gives norm three float parameters and
\* the return type float.
C2_SampleSpecializes ==
    (src = SampleSrc /\ application = VoidApplication) =>
        /\ pc # "failed"
        /\ Lowered => NormIsFloat

\* the signature tuple (param1, .., paramN, returnType) that type_solutions
\* holds for the function called name
SignatureOf(name) == Get(type_solutions, AtomT(name))

\* C8: the return_type of every typed function definition is one concrete
\* type, the last slot of the function's signature tuple; it is not the
\* whole tuple and not a type variable.
C8_ReturnTypeIsLastSlot ==
    Lowered =>
        \A i \in DOMAIN fn_defs :
            /\ IsAtomicBase(fn_defs[i].return_type)
            /\ SignatureOf(fn_defs[i].name).k = "l"
            /\ fn_defs[i].return_type =
                   SignatureOf(fn_defs[i].name).l[Len(SignatureOf(fn_defs[i].name).l)]

(***************************************************************************)
(* resolve_all_function_calls on its own: the definitions are main alone   *)
(* or main and f, with bodies as lowering builds them (constants, variable *)
(* loads, calls of f and g with one argument, sequences of two calls or    *)
(* sequences), nested MaxDepth deep.  g is never defined, f only when the  *)
(* second definition is there.                                             *)
(***************************************************************************)
MaxDepth == 2

Leaves == {UnresolvedVariableLoad(Tx), ConstantLoad(IntT, T1)}

Callees == {Tf, Tg}

RECURSIVE Bodies(_)
\* the bodies nested at most d deep
Bodies(d) ==
    IF d = 0 THEN Leaves
    ELSE LET B == Bodies(d - 1)
             G == {b \in B : b.kind \in {"UnresolvedFnApp", "ProgN"}}
         IN  B \cup {UnresolvedFnApp(n, <<a>>) : n \in Callees, a \in B}
               \cup {ProgN(<<p, q>>) : p \in G, q \in G}

MainDef(b) == TypedFnDef(S_main, <<>>, b, TupleT(<<IntT>>))

FDef(b) == TypedFnDef(Tf, <<VariableDef(Tx, IntT)>>, b, TupleT(<<IntT, IntT>>))

ResolveInputs ==
    {<<MainDef(b)>> : b \in Bodies(MaxDepth)}
        \cup {<<MainDef(b), FDef(c)>> : b \in Bodies(MaxDepth), c \in Bodies(MaxDepth - 1)}

InitResolve ==
    /\ pc = "lowered"
    /\ fn_defs \in ResolveInputs
    /\ src = <<>>
    /\ words = <<>>
    /\ rewords = <<>>
    /\ tree = EmptyNode
    /\ functions = <<>>
    /\ name_counter = 1
    /\ err = ""
    /\ subst = <<>>
    /\ calls = <<>>
    /\ todo = <<>>
    /\ type_var_counter = 0
    /\ application = VoidApplication
    /\ resulting_type = NoType
    /\ type_solutions = <<>>

NextResolve == Resolve

SpecResolve == InitResolve /\ [][NextResolve]_vars

RECURSIVE UnknownCallIn(_, _)
\* some unresolved call in a, at the top, inside a call argument or inside a
\* sequence element, names a function outside names
UnknownCallIn(a, names) ==
    CASE a.kind = "UnresolvedFnApp" ->
             a.name \notin names \/ \E i \in DOMAIN a.args : UnknownCallIn(a.args[i], names)
      [] a.kind = "ProgN" -> \E i \in DOMAIN a.args : UnknownCallIn(a.args[i], names)
      [] OTHER -> FALSE

RECURSIVE HasUnresolved(_)
\* an unresolved call is left somewhere in a
HasUnresolved(a) ==
    a.kind = "UnresolvedFnApp" \/ \E i \in DOMAIN a.args : HasUnresolved(a.args[i])

RECURSIVE CalleesOf(_), CalleesOfList(_)
\* the callee names of the calls in a, resolved or not, in the order written
CalleesOf(a) ==
    (IF a.kind \in {"UnresolvedFnApp", "FunctionApplication"} THEN <<a.name>> ELSE <<>>)
        \o CalleesOfList(a.args)

CalleesOfList(as) ==
    IF as = <<>> THEN <<>> ELSE CalleesOf(Head(as)) \o CalleesOfList(Tail(as))

\* C5: when some unresolved call anywhere in a lowered body names a function
\* that has no definition, resolve_all_function_calls fails with the KeyError
\* of the name table; when it succeeds, no unresolved call is left in its
\* output and every call is still there, in the order written.
C5_UnknownCalleeFails ==
    [][pc = "lowered" =>
          IF \E i \in DOMAIN fn_defs :
                 UnknownCallIn(fn_defs[i].body, FunctionNames(fn_defs))
          THEN pc' = "failed" /\ err' = "KeyError"
          ELSE /\ pc' = "resolved"
               /\ Len(fn_defs') = Len(fn_defs)
               /\ \A i \in DOMAIN fn_defs :
                      /\ ~HasUnresolved(fn_defs'[i].body)
                      /\ CalleesOf(fn_defs'[i].body) = CalleesOf(fn_defs[i].body)]_vars

\* resolution has failed on a call of the defined f whose argument is a call
\* of the undefined g
C5_Witness ==
    /\ pc = "failed"
    /\ err = "KeyError"
    /\ Len(fn_defs) = 2
    /\ fn_defs[1].body.kind = "UnresolvedFnApp"
    /\ fn_defs[1].body.name = Tf
    /\ fn_defs[1].body.args[1].kind = "UnresolvedFnApp"
    /\ fn_defs[1].body.args[1].name = Tg

(***************************************************************************)
(* type_inference.py: unify_vars that does not return.  unify_vars goes on *)
(* through "one in solutions", "two in solutions" and the elements of two  *)
(* tuples; when it is entered with the arguments and the dict contents of  *)
(* a call that is still running, nothing has been inserted in between and  *)
(* the same calls follow again, until Python raises RecursionError.        *)
(***************************************************************************)
RECURSIVE UnifyRecursion(_, _, _, _), ZipRecursion(_, _, _, _, _)

\* the list comprehension over zip(t1, t2), from position i on
ZipRecursion(t1, t2, i, solutions, active) ==
    IF i > Len(t1) \/ i > Len(t2) THEN FALSE
    ELSE IF UnifyRecursion(t1[i], t2[i], solutions, active) THEN TRUE
    ELSE With(unify_vars(t1[i], t2[i], solutions),
              LAMBDA r : IF r.ok THEN ZipRecursion(t1, t2, i + 1, r.sol, active)
                         ELSE FALSE)

\* unify_vars(one, two, solutions) never returns; active holds the calls
\* that are running, as <<one, two, solutions>>
UnifyRecursion(one, two, solutions, active) ==
    IF <<one, two, solutions>> \in active THEN TRUE
    ELSE IF one.k = "l" /\ two.k = "l"
    THEN ZipRecursion(one.l, two.l, 1, solutions, active \cup {<<one, two, solutions>>})
    ELSE IF one.k = "none" \/ two.k = "none" THEN FALSE
    ELSE IF one = two THEN FALSE
    ELSE IF Has(solutions, one)
    THEN UnifyRecursion(Get(solutions, one), two, solutions,
                        active \cup {<<one, two, solutions>>})
    ELSE IF Has(solutions, two)
    THEN UnifyRecursion(one, Get(solutions, two), solutions,
                        active \cup {<<one, two, solutions>>})
    ELSE FALSE

RECURSIVE ConstraintsRecursion(_, _, _)
\* for c in constraints: unify_vars(c.lhs, c.rhs, solutions), from constraint
\* i on, meets a call that never returns
ConstraintsRecursion(constraints, i, solutions) ==
    IF i > Len(constraints) THEN FALSE
    ELSE IF UnifyRecursion(constraints[i].lhs, constraints[i].rhs, solutions, {}) THEN TRUE
    ELSE With(unify_vars(constraints[i].lhs, constraints[i].rhs, solutions),
              LAMBDA r : IF r.ok THEN ConstraintsRecursion(constraints, i + 1, r.sol)
                         ELSE FALSE)

(***************************************************************************)
(* function_stub.py: annotate_type, statement by statement.  The driver    *)
(* annotates the stubs in order; todo keeps the constraint list of every   *)
(* stub annotated so far, so the stub at work is the one numbered          *)
(* Len(todo).                                                              *)
(***************************************************************************)
\* main_fn = next(..) before the first stub; then, for the next stub,
\* constraints = []; self.my_type = fn_type_annotator(self, constraints)
FnTypeAnnotate ==
    /\ pc = "stubs"
    /\ Len(todo) < Len(functions) \/ functions = <<>>
    /\ IF ~HasMain(functions)
       THEN /\ pc' = "failed"
            /\ err' = "StopIteration"
            /\ UNCHANGED <<functions, todo, type_var_counter>>
       ELSE \E a \in {fn_type_annotator(functions[Len(todo) + 1], <<>>, type_var_counter)} :
                /\ type_var_counter' = a.cnt
                /\ todo' = IF a.ok THEN Append(todo, a.cs) ELSE todo
                /\ functions' = IF a.ok
                                 THEN [functions EXCEPT ![Len(todo) + 1].my_type = a.t]
                                 ELSE functions
                /\ pc' = IF a.ok THEN "constrained" ELSE "failed"
                /\ err' = a.err
    /\ UNCHANGED <<lexvars, tree, name_counter, subst, calls, application,
                   resulting_type, type_solutions, fn_defs>>

\* self.intermediate_types = unify_constraints(constraints), for the stub
\* whose constraints were collected last
UnifyStub ==
    /\ pc = "constrained"
    /\ IF ConstraintsRecursion(todo[Len(todo)], 1, <<>>)
       THEN /\ pc' = "failed"
            /\ err' = "RecursionError"
            /\ UNCHANGED functions
       ELSE \E u \in {unify_constraints(todo[Len(todo)])} :
                /\ functions' = IF u.ok
                                 THEN [functions EXCEPT
                                          ![Len(todo)].intermediate_types = u.sol]
                                 ELSE functions
                /\ pc' = IF ~u.ok THEN "failed"
                         ELSE IF Len(todo) = Len(functions) THEN "annotated"
                         ELSE "stubs"
                /\ err' = u.err
    /\ UNCHANGED <<lexvars, tree, name_counter, typevars, pipevars>>

(***************************************************************************)
(* Inference on small programs, stub by stub, and the merge into main:     *)
(* main has the parameters x and y and a body that adds or multiplies, or  *)
(* a sequence of two calls; it stands alone or before a definition of h    *)
(* with a parameter x of its own.                                          *)
(***************************************************************************)
Tk == <<"k">>
T15 == <<"1", ".", "5">>
TUnknownX == S_Unknown \o Tx
TUnknownY == S_Unknown \o Ty

\* ( op a b ) as tokens
OpForm(op, a, b) == Wrap(<<op>> \o a \o b)

\* ( ( f a ) ( g b ) ) as tokens
TwoCalls(f, a, g, b) == Wrap(Wrap(<<f, a>>) \o Wrap(<<g, b>>))

InferOps == {<<"+">>, <<"*">>}

InferBodies ==
    {OpForm(op, <<Tx>>, <<a>>) : op \in InferOps, a \in {T1, T15, Ty}}
        \cup {OpForm(op, OpForm(oq, <<Tx>>, <<Ty>>), <<T1>>) : op \in InferOps, oq \in InferOps}
        \cup {TwoCalls(Tg, Tx, Tg, a) : a \in {T1, T15, Ty}}
        \cup {Wrap(Wrap(<<TUnknownX, Tx>>) \o Wrap(<<TUnknownY, Ty>>)
                   \o Wrap(<<TUnknownX, Ty>>))}

\* ( defun h ( x ) ( ( k x ) ( k a ) ) ) as tokens
DefH(a) == DefunForm(Th, <<Tx>>, TwoCalls(Tk, Tx, Tk, a))

InferExtras == {<<>>, DefH(T1), DefH(T15)}

InferSources ==
    {JoinSpace(DefunForm(S_main, <<Tx, Ty>>, b) \o e) : b \in InferBodies, e \in InferExtras}

InitInfer ==
    /\ pc = "text"
    /\ src \in InferSources
    /\ words = <<>>
    /\ rewords = <<>>
    /\ tree = EmptyNode
    /\ functions = <<>>
    /\ name_counter = 1
    /\ err = ""
    /\ subst = <<>>
    /\ calls = <<>>
    /\ todo = <<>>
    /\ type_var_counter = 0
    /\ application = VoidApplication
    /\ resulting_type = NoType
    /\ type_solutions = <<>>
    /\ fn_defs = <<>>

NextInfer ==
    \/ Lex \/ Parse \/ Flatten \/ Separate
    \/ FnTypeAnnotate \/ UnifyStub \/ Merge

SpecInfer == InitInfer /\ [][NextInfer]_vars

RECURSIVE ReduceSum(_)
\* sum(c) of a list of numbers
ReduceSum(c) == IF c = <<>> THEN 0 ELSE Head(c) + ReduceSum(Tail(c))

RECURSIVE CountInstr(_, _)
\* the number of nodes of n with the instruction instr
CountInstr(n, instr) ==
    (IF n.instr = instr THEN 1 ELSE 0)
        + (IF n.operands = <<>> THEN 0
           ELSE LET c == [i \in DOMAIN n.operands |-> CountInstr(n.operands[i], instr)]
                IN  ReduceSum(c))

\* the constraints of cs that bind the type called name to a tuple of three
BindingsOf(cs, name) ==
    {j \in DOMAIN cs : cs[j].lhs = AtomT(name) /\ cs[j].rhs.k = "l" /\ Len(cs[j].rhs.l) = 3}

\* C11: in the constraints collected from a function, every binary-add node
\* accounts for exactly one constraint Operator+ == (lhsType, rhsType,
\* resultType) and every binary-multiply node for exactly one constraint
\* Operator* == (lhsType, rhsType, resultType); a multiply never constrains
\* Operator+.
C11_OperatorConstraints ==
    \A i \in DOMAIN todo :
        /\ Cardinality(BindingsOf(todo[i], S_OperatorPlus))
               = CountInstr(functions[i].body, "Add")
        /\ Cardinality(BindingsOf(todo[i], S_OperatorTimes))
               = CountInstr(functions[i].body, "Mult")

\* the type variable that type_annotator gives the parameter called p
ParamVar(p) == AtomT(get_unknown_type_var(p, 0).name)

\* stub i has resolved its parameter p to an atomic base type
ParamResolved(i, p) ==
    /\ \E a \in DOMAIN functions[i].params_list : functions[i].params_list[a] = p
    /\ Has(functions[i].intermediate_types, ParamVar(p))
    /\ IsAtomicBase(Get(functions[i].intermediate_types, ParamVar(p)))

\* two stubs have a parameter of the same name, resolved to different base
\* types by their own constraints
SameNameClash ==
    \E i \in DOMAIN functions, j \in DOMAIN functions :
        \E a \in DOMAIN functions[i].params_list :
            LET p == functions[i].params_list[a]
            IN  /\ i # j
                /\ ParamResolved(i, p)
                /\ ParamResolved(j, p)
                /\ Get(functions[i].intermediate_types, ParamVar(p))
                       # Get(functions[j].intermediate_types, ParamVar(p))

\* C12: the parameters of different functions are different type variables
\* even when they have the same name: when two stubs have resolved their
\* own parameter x to different base types, merging the stubs into main
\* does not fail.
C12_ParamsPerStub ==
    [][(pc = "annotated" /\ SameNameClash) => pc' = "merged"]_vars

(***************************************************************************)
(* The same text compiled again in one process.  name_counter and          *)
(* type_var_counter are module globals, assigned once when parser.py and   *)
(* type_inference.py are imported; gen_random_name and                     *)
(* get_unknown_type_var only ever add to them.  A compilation that starts  *)
(* after another has ended rebinds every name of the driver (a, functions, *)
(* main_fn, the stubs and their constraint lists) and finds the counters   *)
(* where the one before left them.                                         *)
(***************************************************************************)
\* the largest counter value from which another compilation is started
MaxCounter == 8

\* ( lambda ( params ) body ) as tokens
LambdaForm(params, body) == Wrap(<<S_lambda>> \o Wrap(params) \o body)

TwiceBodies ==
    {Wrap(<<Tg, Tx>>), OpForm(<<"+">>, <<Tx>>, <<T1>>),
     TwoCalls(Tg, Tx, Tg, T1),
     LambdaForm(<<Ty>>, Wrap(<<Tg, Ty>>)),
     LambdaForm(<<Ty>>, OpForm(<<"*">>, <<Ty>>, <<T1>>)),
     Wrap(LambdaForm(<<Ty>>, Wrap(<<Tg, Ty>>)) \o <<Tx>>),
     Wrap(Wrap(<<Tg, Tx>>) \o LambdaForm(<<Ty>>, Wrap(<<Tg, Ty>>)))}

TwiceExtras == {<<>>, LambdaForm(<<Tx>>, <<Tx>>), DefH(T1)}

TwiceSources ==
    {JoinSpace(DefunForm(S_main, <<Tx>>, b) \o e) : b \in TwiceBodies, e \in TwiceExtras}

InitTwice ==
    /\ pc = "text"
    /\ src \in TwiceSources
    /\ words = <<>>
    /\ rewords = <<>>
    /\ tree = EmptyNode
    /\ functions = <<>>
    /\ name_counter = 1
    /\ err = ""
    /\ subst = <<>>
    /\ calls = <<>>
    /\ todo = <<>>
    /\ type_var_counter = 0
    /\ application = VoidApplication
    /\ resulting_type = NoType
    /\ type_solutions = <<>>
    /\ fn_defs = <<>>

\* the driver's statements run again on the same text after a compilation
\* has ended, by returning or by raising: its names are bound anew, the two
\* counters are not assigned
Recompile ==
    /\ pc \in {"annotated", "failed"}
    /\ name_counter <= MaxCounter
    /\ type_var_counter <= MaxCounter
    /\ pc' = "text"
    /\ words' = <<>>
    /\ tree' = EmptyNode
    /\ functions' = <<>>
    /\ todo' = <<>>
    /\ err' = ""
    /\ UNCHANGED <<src, rewords, name_counter, subst, calls, pipevars>>

NextTwice ==
    \/ Lex \/ Parse \/ Flatten \/ Separate
    \/ FnTypeAnnotate \/ UnifyStub \/ Recompile

SpecTwice == InitTwice /\ [][NextTwice]_vars

\* the desugared tree of a compilation whose fresh-name counter starts at 1
FirstRunTree == flatten_tree(Node("Module", parse_all(lexer(src)).nodes), 1).node

\* the constraints of the first stub in a compilation whose type-variable
\* counter starts at 0
FirstRunConstraints == fn_type_annotator(functions[1], <<>>, 0).cs

\* C13: every compilation of a text in one process generates the names of
\* the first: the desugared tree has the Lambda-<n> names of a run whose
\* counter starts at 1, and the constraints of the first stub have the
\* Unknown-<n> variables of a run whose counter starts at 0.
C13_SameNamesEachRun ==
    /\ pc = "flat" => tree = FirstRunTree
    /\ (pc = "constrained" /\ Len(todo) = 1) => todo[1] = FirstRunConstraints

(***************************************************************************)
(* The shape of the syntax tree                                            *)
(***************************************************************************)
\* the number of children the kind of node instr is to have, 0 for the kinds
\* that may have any number
ArityOf(instr) ==
    IF instr \in {"Add", "Mult"} THEN 2
    ELSE IF instr \in {"Negate", "NumberConstant", "String1"} THEN 1
    ELSE 0

RECURSIVE HasArity(_)
\* node and every node under it has operands that are a list, of the length
\* its kind is to have
HasArity(node) ==
    /\ node.oplist
    /\ ArityOf(node.instr) # 0 => Len(node.operands) = ArityOf(node.instr)
    /\ \A i \in DOMAIN node.operands :
           IsAstNode(node.operands[i]) => HasArity(node.operands[i])

\* C14: in the tree after parsing, after flatten_tree and after
\* separate_defuns, and in the body of every stub, each add and multiply
\* node has a child list of exactly two and each negate, number and
\* identifier node a child list of exactly one.
C14_NodeArity ==
    /\ pc \in {"parsed", "flat", "stubs"} => HasArity(tree)
    /\ pc = "stubs" => \A i \in DOMAIN functions : HasArity(functions[i].body)

\* node is a group whose only child is an identifier or a literal, as (f)
IsLeafGroup(node) ==
    /\ node.instr = "Unknown" /\ node.oplist
    /\ Len(node.operands) = 1
    /\ node.operands[1].instr \in {"String1", "NumberConstant"}

\* C15: flatten_tree unwraps a group of one child only when the child is a
\* group: a top-level form that is a group of one identifier or one literal
\* is the same group of one child after the desugaring.
C15_LeafGroupKept ==
    [][(pc = "parsed" /\ pc' = "flat") =>
          \A i \in DOMAIN tree.operands :
              IsLeafGroup(tree.operands[i]) =>
                  /\ i \in DOMAIN tree'.operands
                  /\ tree'.operands[i] = tree.operands[i]]_vars

\* C16: unify_constraints ends on the constraints of every stub: no run of
\* the inference stops with the recursion of unify_vars through a key
\* already in the map grown past the interpreter's limit.
C16_UnifyTerminates == ~(pc = "failed" /\ err = "RecursionError")

====
